---- MODULE Spec2Model ----
(***************************************************************************)
(* Model of the wearable-recording ETL pipeline:                           *)
(*   utils/initialize.py        ETLInitializer   (Stager)                  *)
(*   utils/Avro_to_CSV.py       AvroProcessor    (Decoder)                 *)
(*   utils/Segment_Division.py  CSVSegmenter     (Segmenter)               *)
(*   utils/feature_extraction.py  run_feature_extraction (Extractor)       *)
(*   src/transform.py           transform_data   (the pipeline)            *)
(* Each component has its own specification (SpecSeg, SpecStage, SpecDec,  *)
(* SpecRen, SpecFeat, SpecPeri) over the shared variables; a component's   *)
(* specification leaves the variables of the other components at their     *)
(* idle values. SpecPipe runs the components as transform_data calls them. *)
(***************************************************************************)
EXTENDS Integers, Sequences, FiniteSets, TLC

VARIABLES
    \* ---- Segmenter (CSVSegmenter) ----
    extensions,      \* self.extensions: the ordered phase labels
    ratios,          \* self.ratios: the ordered ratio weights
    base_dir,        \* input tree: file -> Absent | Corrupt | Table(n)
    walk,            \* files os.walk has still to yield
    seg_pc,          \* "walking" | "returned" | "raised" (ValueError left run_segmentation)
    created_dirs,    \* output directories created by os.makedirs in this run
    out_files,       \* output tree: <<dir, stem, label>> -> row sequence
    seg_read,        \* input files pd.read_csv was called on
    seg_caught,      \* input files whose exception the per-file handler printed
    seg_sizes,       \* target_sizes computed for each input file that was sliced
    seg_raised_on,   \* the input file split_csv raised ValueError for
    \* ---- Stager (ETLInitializer) and the raw tree ----
    metadata,        \* self._metadata_df: the rows of the participant table
    unprocessed,     \* unprocessed/<date>: [exists, listing of its entries]
    raw,             \* raw/<date>/<subject>: <<date, subject>> -> (file -> chunk)
    stage_calls,     \* completed calls of prepare_raw_data
    returned,        \* the list the last call returned
    stage_log,       \* what the last call did for each active row
    raw_after_first, \* the raw tree as the first call left it
    stage_renamed,   \* raw folders rename_avro_files changed since the last call
    rename_done,     \* dates rename_avro_files was called for since the last call
    dirty_at_call,   \* raw folders that stood renamed when the last call began
    \* ---- Decoder (AvroProcessor), decode step ----
    chunk_data,      \* what each chunk file holds: chunk -> container content
    dec_walk,        \* files of the raw tree os.walk has still to yield
    dec_pc,          \* "walking" | "returned"
    csv_dir,         \* output_csv_dir: <<signal, participant_id>> -> lines
    dec_log,         \* what _convert_and_append_file did for each chunk so far
    \* ---- Decoder, rename step on one chunk directory ----
    ren_initial,     \* the chunk directory before the first rename_avro_files
    ren_calls,       \* completed calls of rename_avro_files on it
    \* ---- Feature Extractor (run_feature_extraction) ----
    phase_segmented, \* base_path: [exists, files: path -> [cols, nrows]]
    features_csv,    \* the feature-table files: output path -> rows written
    all_features_data, \* the rows the last call accumulated
    feat_result,     \* what the last call returned: "none" | "None" | an output path
    feat_read,       \* phase files extract_features_from_file was called on
    feat_calls,      \* completed calls of run_feature_extraction
    \* ---- transform_data ----
    pipe_pc,         \* the statement transform_data is at, or how it ended
    subject_mapping, \* get_group_mapping(): <<[group, subjects]>> in insertion order
    organized,       \* organized_data: [groups, files: <<group, subject, file>> -> lines]
    pipe_result,     \* what the last transform_data returned or raised
    pipe_trace,      \* the stages the current transform_data has called, in order
    \* ---- Feature Extractor, peripheral-signal family ----
    peri_tree,       \* the phase files: <<group, subject, file name>> -> samples
    peri_todo,       \* phase files the driving loop has still to visit
    peri_log,        \* file -> what the loop did with it
    peri_rows,       \* the rows accumulated in memory
    peri_out,        \* the table written at the end
    peri_pc          \* "looping" | "returned"

segVars == <<extensions, ratios, base_dir, walk, seg_pc, created_dirs, out_files,
             seg_read, seg_caught, seg_sizes, seg_raised_on>>

stageVars == <<metadata, unprocessed, raw, stage_calls, returned, stage_log,
               raw_after_first, stage_renamed, rename_done, dirty_at_call>>

decVars == <<chunk_data, dec_walk, dec_pc, csv_dir, dec_log>>

renVars == <<ren_initial, ren_calls>>

featVars == <<phase_segmented, features_csv, all_features_data, feat_result, feat_read,
              feat_calls>>

pipeVars == <<pipe_pc, subject_mapping, organized, pipe_result, pipe_trace>>

periVars == <<peri_tree, peri_todo, peri_log, peri_rows, peri_out, peri_pc>>

restVars == <<renVars, featVars, pipeVars, periVars>>

vars == <<segVars, stageVars, decVars, restVars>>

----------------------------------------------------------------------------
(* Generic helpers *)

RECURSIVE SumSeq(_)
SumSeq(s) == IF s = <<>> THEN 0 ELSE s[1] + SumSeq(Tail(s))

SeqsUpTo(S, n) == UNION {[1..k -> S] : k \in 0..n}

Range(s) == {s[i] : i \in DOMAIN s}

NoFile == [dir |-> "", stem |-> "", suffix |-> ""]
NoMap == [x \in {} |-> 0]

\* The idle values of each component's variables (nothing on disk, nothing run).
SegIdle ==
    /\ extensions = <<>>
    /\ ratios = <<>>
    /\ base_dir = NoMap
    /\ walk = <<>>
    /\ seg_pc = "returned"
    /\ created_dirs = {}
    /\ out_files = NoMap
    /\ seg_read = {}
    /\ seg_caught = {}
    /\ seg_sizes = NoMap
    /\ seg_raised_on = NoFile

StagerIdle ==
    /\ metadata = <<>>
    /\ unprocessed = NoMap
    /\ stage_calls = 0
    /\ returned = <<>>
    /\ stage_log = <<>>
    /\ raw_after_first = NoMap
    /\ stage_renamed = {}
    /\ rename_done = {}
    /\ dirty_at_call = {}

StageIdle == StagerIdle /\ raw = NoMap

DecIdle ==
    /\ chunk_data = NoMap
    /\ dec_walk = <<>>
    /\ dec_pc = "returned"
    /\ csv_dir = NoMap
    /\ dec_log = <<>>

RenIdle ==
    /\ ren_initial = NoMap
    /\ ren_calls = 0

FeatIdle ==
    /\ phase_segmented = [exists |-> FALSE, files |-> NoMap]
    /\ features_csv = NoMap
    /\ all_features_data = <<>>
    /\ feat_result = "none"
    /\ feat_read = {}
    /\ feat_calls = 0

PipeIdle ==
    /\ pipe_pc = "idle"
    /\ subject_mapping = <<>>
    /\ organized = [groups |-> {}, files |-> NoMap]
    /\ pipe_result = "none"
    /\ pipe_trace = <<>>

PeriIdle ==
    /\ peri_tree = NoMap
    /\ peri_todo = {}
    /\ peri_log = NoMap
    /\ peri_rows = <<>>
    /\ peri_out = <<>>
    /\ peri_pc = "returned"

RestIdle == RenIdle /\ FeatIdle /\ PipeIdle /\ PeriIdle

----------------------------------------------------------------------------
(* Segmenter: utils/Segment_Division.py *)

MaxRows == 3        \* longest generic input table
MaxRatio == 2       \* largest generic ratio weight
MaxPhases == 3      \* longest label / ratio list

ExampleRatios == <<1, 5, 5>>   \* the Breathing / Raga rule

\* The protocol's phases in their order; a label list of the model names phases
\* in non-decreasing protocol order (a phase may be named more than once).
PhaseOrder == <<"baseline", "intervention", "test">>
PhaseLabels == Range(PhaseOrder)
PhaseIndex(l) == CHOOSE i \in DOMAIN PhaseOrder : PhaseOrder[i] = l
LabelLists ==
    {ls \in SeqsUpTo(PhaseLabels, MaxPhases) :
        \A i \in 1..(Len(ls) - 1) : PhaseIndex(ls[i]) <= PhaseIndex(ls[i + 1])}
RatioLists == SeqsUpTo(1..MaxRatio, MaxPhases) \cup {ExampleRatios}

\* The files of the group folder: one CSV directly under it, one CSV and one
\* other file in a subject subfolder.
RootCsv == [dir |-> ".", stem |-> "eda_TARIS02", suffix |-> ".csv"]
SubCsv == [dir |-> "TARIS01", stem |-> "eda_TARIS01", suffix |-> ".csv"]
SubTxt == [dir |-> "TARIS01", stem |-> "notes", suffix |-> ".txt"]
SegPaths == {RootCsv, SubCsv, SubTxt}

\* What a path of the input tree holds: nothing, a file pd.read_csv cannot
\* parse, or a table (its data rows, each row identified by its position).
Absent == [kind |-> "absent", rows |-> <<>>]
Corrupt == [kind |-> "corrupt", rows |-> <<>>]
Table(n) == [kind |-> "table", rows |-> [i \in 1..n |-> i]]
ExampleTable == Table(1200)    \* the table of the documented example
Tables == {Table(n) : n \in 0..MaxRows} \cup {ExampleTable}
SubTables == {Table(0), Table(MaxRows)}

IsCsv(f) == f.suffix = ".csv"

\* os.walk is top-down: the files of the root come before those of a subfolder.
WalkOrders(tree) ==
    LET present == {f \in SegPaths : tree[f].kind # "absent"}
    IN  {w \in [1..Cardinality(present) -> present] :
            /\ \A i, j \in DOMAIN w : i # j => w[i] # w[j]
            /\ \A i, j \in DOMAIN w : (w[i].dir # "." /\ w[j].dir = ".") => j < i}

\* lines 23-25: the slice sizes (ratios non-empty)
target_sizes_nofloor(total_rows, rs) ==
    LET total_weight == SumSeq(rs)
        k == Len(rs)
        sizes == [i \in 1..k |-> ((total_rows * rs[i]) + total_weight - 1) \div total_weight]
    IN  [sizes EXCEPT ![k] = total_rows - SumSeq(SubSeq(sizes, 1, k - 1))]

target_sizes(total_rows, rs) ==
    LET total_weight == SumSeq(rs)
        k == Len(rs)
        sizes == [i \in 1..k |-> (total_rows * rs[i]) \div total_weight]
    IN  [sizes EXCEPT ![k] = total_rows - SumSeq(SubSeq(sizes, 1, k - 1))]

\* df[start:end] with 0-based start, exclusive end, clipped like pandas
Slice(df, start, end) ==
    LET lo == IF start < 0 THEN 0 ELSE start
        hi == IF end > Len(df) THEN Len(df) ELSE end
    IN  IF hi <= lo THEN <<>> ELSE SubSeq(df, lo + 1, hi)

\* lines 28-36: the slice-and-save loop from phase i on; a later phase with the
\* same label overwrites the file of an earlier one (to_csv truncates).
RECURSIVE WriteSegments(_, _, _, _, _, _, _)
WriteSegments(out, f, df, sizes, exts, i, start) ==
    IF i > Len(sizes) \/ i > Len(exts) THEN out
    ELSE LET end == start + sizes[i]
             key == <<f.dir, f.stem, exts[i]>>
             chunk == Slice(df, start, end)
             out2 == [k \in (DOMAIN out) \cup {key} |-> IF k = key THEN chunk ELSE out[k]]
         IN  WriteSegments(out2, f, df, sizes, exts, i + 1, end)

\* split_csv (lines 11-39) as a function of the object, the file and the output
\* tree: what it leaves behind.
\*   outcome: "raised" (ValueError propagates), "caught" (handler printed),
\*            "empty" (silent return), "written"
split_csv_swallow(exts, rs, f, content, out) ==
    IF Len(rs) # Len(exts) \/ content.kind = "corrupt" \/ Len(rs) = 0
    THEN [outcome |-> "caught", read |-> Len(rs) = Len(exts), out |-> out, sizes |-> <<>>]
    ELSE IF Len(content.rows) = 0
    THEN [outcome |-> "empty", read |-> TRUE, out |-> out, sizes |-> <<>>]
    ELSE LET sizes == target_sizes(Len(content.rows), rs)
         IN  [outcome |-> "written", read |-> TRUE, sizes |-> sizes,
              out |-> WriteSegments(out, f, content.rows, sizes, exts, 1, 0)]

split_csv_noempty(exts, rs, f, content, out) ==
    IF Len(rs) # Len(exts)
    THEN [outcome |-> "raised", read |-> FALSE, out |-> out, sizes |-> <<>>]
    ELSE IF content.kind = "corrupt" \/ Len(rs) = 0
    THEN [outcome |-> "caught", read |-> TRUE, out |-> out, sizes |-> <<>>]
    ELSE LET sizes == target_sizes(Len(content.rows), rs)
         IN  [outcome |-> "written", read |-> TRUE, sizes |-> sizes,
              out |-> WriteSegments(out, f, content.rows, sizes, exts, 1, 0)]

split_csv(exts, rs, f, content, out) ==
    IF Len(rs) # Len(exts)
    THEN \* lines 13-14, outside the try
         [outcome |-> "raised", read |-> FALSE, out |-> out, sizes |-> <<>>]
    ELSE IF content.kind = "corrupt"
    THEN \* line 17 raises inside the try, lines 38-39 print
         [outcome |-> "caught", read |-> TRUE, out |-> out, sizes |-> <<>>]
    ELSE IF Len(content.rows) = 0
    THEN \* lines 19-20
         [outcome |-> "empty", read |-> TRUE, out |-> out, sizes |-> <<>>]
    ELSE IF Len(rs) = 0
    THEN \* line 25: target_sizes[-1] of an empty list is an IndexError, caught
         [outcome |-> "caught", read |-> TRUE, out |-> out, sizes |-> <<>>]
    ELSE LET sizes == target_sizes(Len(content.rows), rs)
         IN  [outcome |-> "written", read |-> TRUE, sizes |-> sizes,
              out |-> WriteSegments(out, f, content.rows, sizes, exts, 1, 0)]

InitSeg ==
    /\ extensions \in LabelLists
    /\ ratios \in RatioLists
    /\ \E root \in {Absent, Corrupt} \cup Tables, sub \in {Absent, Corrupt} \cup SubTables :
          base_dir = [f \in SegPaths |->
                        IF f = RootCsv THEN root ELSE IF f = SubCsv THEN sub ELSE Table(0)]
    /\ walk \in WalkOrders(base_dir)
    /\ seg_pc = "walking"
    /\ created_dirs = {}
    /\ out_files = NoMap
    /\ seg_read = {}
    /\ seg_caught = {}
    /\ seg_sizes = NoMap
    /\ seg_raised_on = NoFile
    /\ StageIdle
    /\ DecIdle
    /\ RestIdle

\* run_segmentation, one iteration for a file that is no CSV (line 45)
SegSkipFile ==
    /\ seg_pc = "walking"
    /\ walk # <<>>
    /\ ~IsCsv(Head(walk))
    /\ walk' = Tail(walk)
    /\ UNCHANGED <<extensions, ratios, base_dir, seg_pc, created_dirs, out_files,
                   seg_read, seg_caught, seg_sizes, seg_raised_on>>
    /\ UNCHANGED <<stageVars, decVars, restVars>>

\* run_segmentation, one iteration for a CSV (lines 45-53): makedirs, split_csv
SegSplitFile ==
    /\ seg_pc = "walking"
    /\ walk # <<>>
    /\ IsCsv(Head(walk))
    /\ LET f == Head(walk)
           r == split_csv(extensions, ratios, f, base_dir[f], out_files)
       IN  /\ created_dirs' = created_dirs \cup {f.dir}
           /\ out_files' = r.out
           /\ seg_read' = IF r.read THEN seg_read \cup {f} ELSE seg_read
           /\ seg_caught' = IF r.outcome = "caught" THEN seg_caught \cup {f} ELSE seg_caught
           /\ seg_sizes' = IF r.outcome = "written"
                           THEN [g \in (DOMAIN seg_sizes) \cup {f} |->
                                    IF g = f THEN r.sizes ELSE seg_sizes[g]]
                           ELSE seg_sizes
           /\ seg_pc' = IF r.outcome = "raised" THEN "raised" ELSE "walking"
           /\ seg_raised_on' = IF r.outcome = "raised" THEN f ELSE seg_raised_on
           /\ walk' = Tail(walk)
    /\ UNCHANGED <<extensions, ratios, base_dir>>
    /\ UNCHANGED <<stageVars, decVars, restVars>>

\* run_segmentation returns when the walk is exhausted
SegReturn ==
    /\ seg_pc = "walking"
    /\ walk = <<>>
    /\ seg_pc' = "returned"
    /\ UNCHANGED <<extensions, ratios, base_dir, walk, created_dirs, out_files,
                   seg_read, seg_caught, seg_sizes, seg_raised_on>>
    /\ UNCHANGED <<stageVars, decVars, restVars>>

NextSeg == SegSkipFile \/ SegSplitFile \/ SegReturn

SpecSeg == InitSeg /\ [][NextSeg]_vars

----------------------------------------------------------------------------
(* Segmenter: properties *)

\* the CSV files run_segmentation has handed to split_csv so far
SegHandled == {f \in SegPaths : IsCsv(f) /\ base_dir[f].kind # "absent" /\ f \notin Range(walk)}

PhaseKey(f, l) == <<f.dir, f.stem, l>>
PhaseKeys(f) == {k \in DOMAIN out_files : k[1] = f.dir /\ k[2] = f.stem}

RECURSIVE ConcatPhases(_, _)
\* the phase files of f read back in phase-label order and concatenated
ConcatPhases(f, i) ==
    IF i > Len(extensions) THEN <<>>
    ELSE (IF PhaseKey(f, extensions[i]) \in DOMAIN out_files
          THEN out_files[PhaseKey(f, extensions[i])] ELSE <<>>)
         \o ConcatPhases(f, i + 1)

RECURSIVE SumLens(_)
SumLens(keys) ==
    IF keys = {} THEN 0
    ELSE LET k == CHOOSE x \in keys : TRUE
         IN  Len(out_files[k]) + SumLens(keys \ {k})

DistinctLabels == \A i, j \in DOMAIN extensions : i # j => extensions[i] # extensions[j]

SegPartitions(f) ==
    /\ SumLens(PhaseKeys(f)) = Len(base_dir[f].rows)
    /\ \A a, b \in PhaseKeys(f) : a # b => Range(out_files[a]) \cap Range(out_files[b]) = {}
    /\ ConcatPhases(f, 1) = base_dir[f].rows

\* C1: for every table of N >= 1 rows and every pair of equal-length (non-empty)
\* label and ratio lists, the phase files split_csv wrote for the table have row
\* counts summing to N, do not overlap, and concatenated in phase-label order
\* give back the input rows.
C1_SegmentsPartitionInput ==
    \A f \in SegHandled :
        (/\ base_dir[f].kind = "table"
         /\ Len(base_dir[f].rows) >= 1
         /\ Len(extensions) = Len(ratios)
         /\ Len(ratios) >= 1)
        => SegPartitions(f)

\* The same with pairwise distinct labels (what the code does guarantee).
SegPartitionsWhenLabelsDistinct ==
    \A f \in SegHandled :
        (/\ base_dir[f].kind = "table"
         /\ Len(base_dir[f].rows) >= 1
         /\ Len(extensions) = Len(ratios)
         /\ Len(ratios) >= 1
         /\ DistinctLabels)
        => SegPartitions(f)

\* C2: phase i < k gets floor(total_rows * r_i / sum(r)) rows, the last phase
\* gets total_rows minus the earlier sizes, which is never negative; 1200 rows
\* with ratios [1,5,5] give [109, 545, 546]; a phase file holds as many rows as
\* its size says.
C2_TargetSizes ==
    \A f \in DOMAIN seg_sizes :
        LET n == Len(base_dir[f].rows)
            k == Len(ratios)
            w == SumSeq(ratios)
            sz == seg_sizes[f]
        IN  /\ Len(sz) = k
            /\ \A i \in 1..(k - 1) :
                  /\ sz[i] * w <= n * ratios[i]
                  /\ n * ratios[i] < (sz[i] + 1) * w
            /\ sz[k] = n - SumSeq(SubSeq(sz, 1, k - 1))
            /\ sz[k] >= 0
            /\ (base_dir[f] = ExampleTable /\ ratios = ExampleRatios) => sz = <<109, 545, 546>>
            /\ DistinctLabels =>
                  \A i \in 1..k : Len(out_files[PhaseKey(f, extensions[i])]) = sz[i]

C2_Witness ==
    /\ RootCsv \in DOMAIN seg_sizes
    /\ seg_sizes[RootCsv] = <<109, 545, 546>>
    /\ extensions = PhaseOrder
    /\ Len(out_files[PhaseKey(RootCsv, "test")]) = 546

\* C3: with label and ratio lists of different lengths split_csv raises
\* ValueError for the first CSV it is given, before reading it; the per-file
\* handler does not catch it, and no phase file is written.
C3_MismatchRaisesBeforeRead ==
    /\ seg_pc = "raised" =>
          /\ Len(ratios) # Len(extensions)
          /\ seg_raised_on \in SegHandled
          /\ seg_raised_on \notin seg_read
          /\ seg_raised_on \notin seg_caught
          /\ PhaseKeys(seg_raised_on) = {}
    /\ (Len(ratios) # Len(extensions) /\ SegHandled # {}) =>
          /\ seg_pc = "raised"
          /\ SegHandled = {seg_raised_on}
          /\ seg_read = {}
          /\ seg_caught = {}
          /\ out_files = NoMap

C3_Witness ==
    /\ seg_pc = "raised"
    /\ base_dir[seg_raised_on].kind = "table"
    /\ Len(base_dir[seg_raised_on].rows) >= 1

\* C4: a Segmenter whose label and ratio lists differ in length reports the
\* error whatever the input tree holds (so its run never returns normally) and
\* before it creates any output directory.
C4_ImmediateConfigError ==
    Len(ratios) # Len(extensions) =>
        /\ seg_pc # "returned"
        /\ created_dirs = {}

\* C5: (label and ratio lists of equal length) a table with zero data rows
\* gets no phase file, its split neither raises nor reaches the per-file
\* handler, and every other table of the walk is still segmented.
C5_EmptyTableNoOp ==
    Len(ratios) = Len(extensions) =>
        \A f \in SegHandled :
            (base_dir[f].kind = "table" /\ Len(base_dir[f].rows) = 0) =>
                /\ PhaseKeys(f) = {}
                /\ f \in seg_read
                /\ f \notin seg_caught
                /\ f \notin DOMAIN seg_sizes
                /\ seg_pc # "raised"
                /\ seg_pc = "returned" =>
                      \A g \in SegPaths :
                          (/\ IsCsv(g)
                           /\ base_dir[g].kind = "table"
                           /\ Len(base_dir[g].rows) >= 1
                           /\ Len(ratios) >= 1)
                          => /\ g \in DOMAIN seg_sizes
                             /\ \A i \in DOMAIN extensions :
                                   PhaseKey(g, extensions[i]) \in DOMAIN out_files

C5_Witness ==
    /\ seg_pc = "returned"
    /\ base_dir[RootCsv] = Table(0)
    /\ PhaseKeys(RootCsv) = {}
    /\ base_dir[SubCsv] = Table(MaxRows)
    /\ PhaseKeys(SubCsv) # {}

----------------------------------------------------------------------------
(* Stager: utils/initialize.py, and the rename step of utils/Avro_to_CSV.py *)

MaxMetaRows == 2     \* rows of the participant table
MaxEntries == 2      \* entries of one unprocessed/<date> folder

\* Dates are <<year, month, day>>; d1 <= d2 is the order of datetime.date.
DateLeq(a, b) ==
    \/ a[1] < b[1]
    \/ a[1] = b[1] /\ a[2] < b[2]
    \/ a[1] = b[1] /\ a[2] = b[2] /\ a[3] <= b[3]

NaT == <<0, 0, 0>>

DaysIn(y, m) ==
    IF m \in {4, 6, 9, 11} THEN 30
    ELSE IF m = 2 THEN (IF y % 4 = 0 /\ (y % 100 # 0 \/ y % 400 = 0) THEN 29 ELSE 28)
    ELSE 31

\* pd.to_datetime(..., format='%d.%m.%Y', errors='coerce').dt.date of a cell
\* holding day.month.year
ParseMetaDate(cell) ==
    IF /\ cell.mm \in 1..12
       /\ cell.dd \in 1..DaysIn(cell.yyyy, cell.mm)
    THEN <<cell.yyyy, cell.mm, cell.dd>>
    ELSE NaT

\* transform.py: START_DATE = "2026-01-14", END_DATE = "2026-02-18"
START_DATE == <<2026, 1, 14>>
END_DATE == <<2026, 2, 18>>

Jan17 == [dd |-> 17, mm |-> 1, yyyy |-> 2026]
Jan18 == [dd |-> 18, mm |-> 1, yyyy |-> 2026]
Feb19 == [dd |-> 19, mm |-> 2, yyyy |-> 2026]     \* after END_DATE
Feb30 == [dd |-> 30, mm |-> 2, yyyy |-> 2026]     \* no calendar date

\* str(id).strip().zfill(2)
Zfill2(n) == IF n < 10 THEN "0" \o ToString(n) ELSE ToString(n)
\* f"TARIS{part_suffix}", as the tokens "TARIS" and the digit string
DestName(row) == <<"TARIS", Zfill2(row.pid)>>

\* Names of the entries of unprocessed/<date>, and device IDs, as token
\* sequences; f.startswith(emp_id) is the prefix test.
StartsWith(name, prefix) ==
    /\ Len(prefix) <= Len(name)
    /\ SubSeq(name, 1, Len(prefix)) = prefix

DeviceIDs == {<<"TARIS0", "7">>, <<"TARIS0">>}

\* A file of a session folder: where it lies (raw_data/v6 or elsewhere), its
\* stem (token sequence) and its extension.
ChunkA == [loc |-> "v6", stem |-> <<"chunkA">>, ext |-> ".avro"]
ChunkB == [loc |-> "v6", stem |-> <<"chunkB">>, ext |-> ".avro"]

\* An entry of unprocessed/<date>. fail says how shutil.copytree of it ends:
\* "none"; "scandir" (the folder cannot be listed: nothing is created); "file"
\* (one file cannot be read: the rest is copied, then Error is raised).
SessionABC(fail) ==
    [name |-> <<"TARIS0", "7", "_ABC">>, isdir |-> TRUE, fail |-> fail,
     files |-> [f \in {ChunkA, ChunkB} |-> IF f = ChunkA THEN "a1" ELSE "a2"],
     badfile |-> ChunkB]
SessionX(fail) ==
    [name |-> <<"TARIS0", "5", "_X">>, isdir |-> TRUE, fail |-> fail,
     files |-> [f \in {ChunkA} |-> "b1"],
     badfile |-> ChunkA]
ZipFile ==
    [name |-> <<"TARIS0", "7", ".zip">>, isdir |-> FALSE, fail |-> "none",
     files |-> NoMap, badfile |-> ChunkA]

Entries == {SessionABC("none"), ZipFile} \cup {SessionX(m) : m \in {"none", "scandir", "file"}}

Listings ==
    {l \in SeqsUpTo(Entries, MaxEntries) :
        \A i, j \in DOMAIN l : i # j => l[i].name # l[j].name}

MetaRows ==
    {[pid |-> p, emp |-> e, date |-> Jan17] : p \in {5, 12}, e \in DeviceIDs}
    \cup {[pid |-> 5, emp |-> <<"TARIS0", "7">>, date |-> d] : d \in {Jan18, Feb19, Feb30}}

DateFolders == {<<2026, 1, 17>>, <<2026, 1, 18>>, <<2026, 2, 19>>}

Restrict(f, S) == [x \in S |-> f[x]]
Put(f, k, v) == [x \in (DOMAIN f) \cup {k} |-> IF x = k THEN v ELSE f[x]]

\* lines 74-75: if os.path.exists(dest_path): shutil.rmtree(dest_path)
rmtree_skipped(tree, key) == tree

rmtree_if_exists(tree, key) == Restrict(tree, (DOMAIN tree) \ {key})

\* line 77: shutil.copytree(src, dest_path); ok = it returned
copytree(tree, key, e) ==
    IF key \in DOMAIN tree
    THEN [tree |-> tree, ok |-> FALSE]                  \* FileExistsError
    ELSE IF e.fail = "scandir"
    THEN [tree |-> tree, ok |-> FALSE]
    ELSE IF e.fail = "file"
    THEN [tree |-> Put(tree, key, Restrict(e.files, (DOMAIN e.files) \ {e.badfile})),
          ok |-> FALSE]
    ELSE [tree |-> Put(tree, key, e.files), ok |-> TRUE]

\* lines 68-81: the loop over found_folders from position i on, inside the try:
\* an exception ends the loop for this row.
RECURSIVE copy_found(_, _, _, _, _)
copy_found(st, folders, i, date_folder, dest_name) ==
    IF i > Len(folders) THEN st
    ELSE LET key == <<date_folder, dest_name>>
             c == copytree(rmtree_if_exists(st.tree, key), key, folders[i])
         IN  IF c.ok
             THEN copy_found([tree |-> c.tree,
                              appended |-> Append(st.appended, date_folder),
                              copied |-> st.copied \cup {<<key, folders[i].name>>},
                              touched |-> st.touched \cup {key},
                              error |-> FALSE],
                             folders, i + 1, date_folder, dest_name)
             ELSE [tree |-> c.tree, appended |-> st.appended, copied |-> st.copied,
                   touched |-> st.touched \cup {key}, error |-> TRUE]

IsMatch(e, emp_id) == StartsWith(e.name, emp_id) /\ e.isdir

\* lines 50-81: one iteration of the loop over the active rows
process_row(tree, row, unproc) ==
    LET date_folder == ParseMetaDate(row.date)
        start == [tree |-> tree, appended |-> <<>>, copied |-> {}, touched |-> {},
                  error |-> FALSE]
    IN  IF ~unproc[date_folder].exists
        THEN start @@ [row |-> row, found |-> 0, nodir |-> TRUE]
        ELSE LET found_folders ==
                     SelectSeq(unproc[date_folder].listing, LAMBDA e : IsMatch(e, row.emp))
             IN  copy_found(start, found_folders, 1, date_folder, DestName(row))
                 @@ [row |-> row, found |-> Len(found_folders), nodir |-> FALSE]

InRange(row, start, end) ==
    LET d == ParseMetaDate(row.date)
    IN  d # NaT /\ DateLeq(start, d) /\ DateLeq(d, end)

\* lines 48-81: the loop over the active rows; the log keeps each iteration
RECURSIVE process_rows(_, _, _, _, _)
process_rows(tree, rows, i, unproc, log) ==
    IF i > Len(rows) THEN [tree |-> tree, log |-> log]
    ELSE LET r == process_row(tree, rows[i], unproc)
         IN  process_rows(r.tree, rows, i + 1, unproc, Append(log, r))

RECURSIVE Flatten(_)
Flatten(ss) == IF ss = <<>> THEN <<>> ELSE Head(ss) \o Flatten(Tail(ss))

Perms(S) ==
    {p \in [1..Cardinality(S) -> S] : \A i, j \in DOMAIN p : i # j => p[i] # p[j]}

\* line 83: list(set(processed_dates)), in whatever order the set iterates
return_lists_nodedup(processed_dates) == {processed_dates}

return_lists(processed_dates) == Perms(Range(processed_dates))

InitStage ==
    /\ SegIdle
    /\ DecIdle
    /\ RestIdle
    /\ metadata \in [1..MaxMetaRows -> MetaRows]
    /\ \E l17 \in Listings, e17 \in BOOLEAN :
          unprocessed = [d \in DateFolders |->
              IF d = <<2026, 1, 17>> THEN [exists |-> e17, listing |-> IF e17 THEN l17 ELSE <<>>]
              ELSE IF d = <<2026, 1, 18>>
              THEN [exists |-> TRUE, listing |-> <<SessionABC("none")>>]
              ELSE [exists |-> FALSE, listing |-> <<>>]]
    /\ raw = NoMap
    /\ stage_calls = 0
    /\ returned = <<>>
    /\ stage_log = <<>>
    /\ raw_after_first = NoMap
    /\ stage_renamed = {}
    /\ rename_done = {}
    /\ dirty_at_call = {}

\* prepare_raw_data(START_DATE, END_DATE), lines 31-83
prepare_raw_data ==
    /\ LET active_participants == SelectSeq(metadata, LAMBDA r : InRange(r, START_DATE, END_DATE))
       IN  IF active_participants = <<>>
           THEN /\ returned' = <<>>
                /\ stage_log' = <<>>
                /\ raw' = raw
                /\ raw_after_first' = IF stage_calls = 0 THEN raw ELSE raw_after_first
           ELSE LET r == process_rows(raw, active_participants, 1, unprocessed, <<>>)
                    processed_dates == Flatten([i \in DOMAIN r.log |-> r.log[i].appended])
                IN  /\ returned' \in return_lists(processed_dates)
                    /\ stage_log' = r.log
                    /\ raw' = r.tree
                    /\ raw_after_first' = IF stage_calls = 0 THEN r.tree ELSE raw_after_first
    /\ stage_calls' = stage_calls + 1
    /\ stage_renamed' = {}
    /\ rename_done' = {}
    /\ dirty_at_call' = stage_renamed
    /\ UNCHANGED <<metadata, unprocessed>>

\* a call of prepare_raw_data on its own
PrepareRawData ==
    /\ stage_calls < 2
    /\ prepare_raw_data
    /\ UNCHANGED <<segVars, decVars, restVars>>

\* rename_avro_files, lines 26-29, for one subject folder: the .avro files of
\* raw_data/v6 in listing order `order`; os.rename replaces an existing target.
RECURSIVE rename_files(_, _, _, _)
rename_files(files, order, i, folder_name) ==
    IF i > Len(order) THEN files
    ELSE LET old == order[i]
             new_stem == IF Len(order) > 1
                         THEN folder_name \o <<"_", ToString(i)>>
                         ELSE folder_name
             new == [loc |-> "v6", stem |-> new_stem, ext |-> ".avro"]
             moved == IF old = new THEN files
                      ELSE Put(Restrict(files, (DOMAIN files) \ {old}), new, files[old])
         IN  rename_files(moved, order, i + 1, folder_name)

AvroFiles(files) == {f \in DOMAIN files : f.loc = "v6" /\ f.ext = ".avro"}

\* rename_avro_files(date_folder), lines 14-29, called once for each date the
\* last call returned (transform.py lines 62-63); os.listdir yields each chunk
\* directory in some order. The model follows the tree up to the return of the
\* second prepare_raw_data.
rename_avro_files ==
    /\ \E date_folder \in Range(returned) \ rename_done :
          LET folders == {k \in DOMAIN raw : k[1] = date_folder}
          IN  \E order \in [folders -> UNION {Perms(AvroFiles(raw[k])) : k \in folders}] :
                 /\ \A k \in folders : order[k] \in Perms(AvroFiles(raw[k]))
                 /\ raw' = [k \in DOMAIN raw |->
                              IF k \in folders
                              THEN rename_files(raw[k], order[k], 1, k[2])
                              ELSE raw[k]]
                 /\ stage_renamed' = stage_renamed \cup {k \in folders : raw'[k] # raw[k]}
                 /\ rename_done' = rename_done \cup {date_folder}
    /\ UNCHANGED <<metadata, unprocessed, stage_calls, returned, stage_log, raw_after_first,
                   dirty_at_call>>

RenameAvroFiles ==
    /\ stage_calls = 1
    /\ rename_avro_files
    /\ UNCHANGED <<segVars, decVars, restVars>>

NextStage == PrepareRawData \/ RenameAvroFiles

SpecStage == InitStage /\ [][NextStage]_vars

----------------------------------------------------------------------------
(* Stager: properties *)

ActiveRows == SelectSeq(metadata, LAMBDA r : InRange(r, START_DATE, END_DATE))
StageDests == {<<ParseMetaDate(ActiveRows[i].date), DestName(ActiveRows[i])>> : i \in DOMAIN ActiveRows}

\* C6: a second prepare_raw_data over the same range, metadata and sources
\* leaves every destination folder as the first call left it, also when the
\* rename step changed the destination in between.
C6_StagerIdempotent ==
    (stage_calls = 2 /\ rename_done = {}) =>
        \A key \in StageDests \cup (DOMAIN raw) \cup (DOMAIN raw_after_first) :
            /\ key \in DOMAIN raw <=> key \in DOMAIN raw_after_first
            /\ key \in DOMAIN raw => raw[key] = raw_after_first[key]

C6_Witness ==
    /\ stage_calls = 2
    /\ rename_done = {}
    /\ \E key \in dirty_at_call :
          /\ key \in DOMAIN raw
          /\ raw[key] = raw_after_first[key]
          /\ ChunkA \in DOMAIN raw[key]

\* C7: the returned list has no duplicates and holds a date exactly when the
\* call copied a folder of unprocessed/<date>/ whose name starts with a row's
\* device ID into raw/<date>/<subject>; every row in range is visited, and a
\* row with no date folder or no matching folder raises nothing, creates
\* nothing and adds no date.
C7_ReturnedDates ==
    stage_calls >= 1 =>
        /\ \A i, j \in DOMAIN returned : i # j => returned[i] # returned[j]
        /\ \A d \in DateFolders :
              d \in Range(returned) <=>
                  \E i \in DOMAIN stage_log : \E c \in stage_log[i].copied : c[1][1] = d
        /\ Len(stage_log) = Len(ActiveRows)
        /\ \A i \in DOMAIN stage_log :
              LET e == stage_log[i]
                  d == ParseMetaDate(e.row.date)
              IN  /\ e.row = ActiveRows[i]
                  /\ \A c \in e.copied :
                        /\ c[1] = <<d, DestName(e.row)>>
                        /\ unprocessed[d].exists
                        /\ \E k \in DOMAIN unprocessed[d].listing :
                              LET src == unprocessed[d].listing[k]
                              IN  /\ src.name = c[2]
                                  /\ src.isdir
                                  /\ src.fail = "none"
                                  /\ StartsWith(src.name, e.row.emp)
                  /\ (~unprocessed[d].exists
                      \/ ~\E k \in DOMAIN unprocessed[d].listing :
                             /\ unprocessed[d].listing[k].isdir
                             /\ StartsWith(unprocessed[d].listing[k].name, e.row.emp))
                     => /\ ~e.error
                        /\ e.touched = {}
                        /\ e.appended = <<>>
                        /\ e.copied = {}
        /\ (stage_calls = 1 /\ rename_done = {}) =>
              DOMAIN raw \subseteq UNION {stage_log[i].touched : i \in DOMAIN stage_log}

C7_Witness ==
    /\ stage_calls = 1
    /\ Len(returned) = 1
    /\ \E i, j \in DOMAIN stage_log :
          /\ i # j
          /\ stage_log[i].copied # {}
          /\ stage_log[j].copied # {}
          /\ stage_log[i].row.pid # stage_log[j].row.pid

----------------------------------------------------------------------------
(* Decoder, decode step: utils/Avro_to_CSV.py lines 31-70 *)

MaxVals == 2         \* longest value array of a signal

\* Digit strings that occur in file names (what \d+ matches as one run)
DigitTokens == {"05", "12", "1", "2"}

RECURSIVE JoinTokens(_)
JoinTokens(toks) == IF toks = <<>> THEN "" ELSE Head(toks) \o JoinTokens(Tail(toks))

\* line 49: re.search(r'TARIS\d+', base_file_name): the leftmost match
RegexMatches(name) ==
    {i \in 1..(Len(name) - 1) : name[i] = "TARIS" /\ name[i + 1] \in DigitTokens}

\* base_file_name.split('_')[0].split('.')[0]
RECURSIVE BeforeSeparator(_)
BeforeSeparator(name) ==
    IF name = <<>> \/ Head(name) \in {"_", ".", ".avro", ".txt"} THEN <<>>
    ELSE <<Head(name)>> \o BeforeSeparator(Tail(name))

\* lines 48-50
participant_id(f) ==
    LET base_file_name == f.stem \o <<f.ext>>
        m == RegexMatches(base_file_name)
    IN  IF m # {}
        THEN LET i == CHOOSE i \in m : \A j \in m : i <= j
             IN  "TARIS" \o base_file_name[i + 1]
        ELSE JoinTokens(BeforeSeparator(base_file_name))

\* round(x) of Python for the rational num / den, den > 0: to nearest, ties to even
PyRound(num, den) ==
    LET q == num \div den
        r == num % den
    IN  IF 2 * r < den THEN q
        ELSE IF 2 * r > den THEN q + 1
        ELSE IF q % 2 = 0 THEN q ELSE q + 1

\* A signal of a container: absent, or [start, freq, values]
Missing == [present |-> FALSE, start |-> 0, freq |-> 0, values |-> <<>>]
Signal(start, freq, base, n) ==
    [present |-> TRUE, start |-> start, freq |-> freq, values |-> [i \in 1..n |-> base + i]]

\* lines 54-57: the list comprehension; it divides by samplingFrequency once
\* for every value, so it raises ZeroDivisionError when freq = 0 and there is a
\* value. timestampStart + i * (1e6 / f) is exact for the frequencies used.
timestamps_raise(sig) == sig.freq = 0 /\ sig.values # <<>>
timestamps(sig) ==
    [k \in 1..Len(sig.values) |->
        PyRound(sig.start * sig.freq + (k - 1) * 1000000, sig.freq)]

HeaderLine(signal) == [kind |-> "header", col |-> signal, ts |-> 0, val |-> 0]
RowLine(ts, v) == [kind |-> "row", col |-> "", ts |-> ts, val |-> v]

\* zip(timestamps, sig_data["values"])
zip_rows(sig) ==
    LET t == timestamps(sig)
    IN  [k \in 1..Len(sig.values) |-> RowLine(t[k], sig.values[k])]

\* lines 63-68: open(out_file, 'a'), header if the file is new, then the rows
write_rows_truncate(csv, out_file, signal, rows) ==
    LET file_exists == out_file \in DOMAIN csv
        hdr == IF ~file_exists THEN <<HeaderLine(signal)>> ELSE <<>>
    IN  Put(csv, out_file, hdr \o rows)

write_rows_header_always(csv, out_file, signal, rows) ==
    LET old == IF out_file \in DOMAIN csv THEN csv[out_file] ELSE <<>>
    IN  Put(csv, out_file, old \o <<HeaderLine(signal)>> \o rows)

write_rows(csv, out_file, signal, rows) ==
    LET file_exists == out_file \in DOMAIN csv
        old == IF file_exists THEN csv[out_file] ELSE <<>>
        hdr == IF ~file_exists THEN <<HeaderLine(signal)>> ELSE <<>>
    IN  Put(csv, out_file, old \o hdr \o rows)

SignalNames == <<"eda", "bvp">>

\* lines 52-68: the loop over ["eda", "bvp"] from signal i on; an exception
\* leaves the loop with what was written before it.
RECURSIVE append_signals(_, _, _, _, _)
append_signals(csv, data, pid, i, wrote) ==
    IF i > Len(SignalNames) THEN [csv |-> csv, failed |-> FALSE, wrote |-> wrote]
    ELSE LET signal == SignalNames[i]
             sig_data == data[signal]
             out_file == <<signal, pid>>
         IN  IF ~sig_data.present \/ timestamps_raise(sig_data)
             THEN [csv |-> csv, failed |-> TRUE, wrote |-> wrote]
             ELSE append_signals(write_rows(csv, out_file, signal, zip_rows(sig_data)),
                                 data, pid, i + 1, wrote \cup {out_file})

\* _convert_and_append_file, lines 40-70
convert_and_append_file(csv, f, data) ==
    IF ~data.readable
    THEN [csv |-> csv, failed |-> TRUE, wrote |-> {}]     \* DataFileReader / next raise
    ELSE append_signals(csv, data, participant_id(f), 1, {})

\* The chunk files of the model, all in raw/2026-01-17/TARIS05/raw_data/v6
Chunk(stem) == [loc |-> "v6", stem |-> stem, ext |-> ".avro"]
Notes == [loc |-> "v6", stem |-> <<"notes">>, ext |-> ".txt"]
FirstNames == {Chunk(<<"TARIS", "05", "_", "1">>), Chunk(<<"chunkA">>)}
SecondNames == {Chunk(<<"TARIS", "05", "_", "2">>), Chunk(<<"TARIS", "12">>)}
DecFolder == <<<<2026, 1, 17>>, <<"TARIS", "05">>>>

Starts == {0, 1000000}
Freqs == {0, 4, 128}

EdaSignals(base) ==
    {Missing} \cup {Signal(s, fq, base, n) : s \in Starts, fq \in Freqs, n \in 0..MaxVals}
BvpSignals(base) ==
    {Missing, Signal(0, 0, base, 1), Signal(0, 128, base, 1)}
Unreadable == [readable |-> FALSE, eda |-> Missing, bvp |-> Missing]
Containers(base) ==
    {Unreadable} \cup
    {[readable |-> TRUE, eda |-> e, bvp |-> b] : e \in EdaSignals(base), b \in BvpSignals(base + 50)}

\* files of the raw tree as os.walk yields them: <<folder, file>>
RawFiles == UNION {{<<k, f>> : f \in DOMAIN raw[k]} : k \in DOMAIN raw}

InitDec ==
    /\ SegIdle
    /\ StagerIdle
    /\ RestIdle
    /\ \E n1 \in FirstNames, n2 \in SecondNames :
          raw = [k \in {DecFolder} |->
                    [f \in {n1, n2, Notes} |->
                        IF f = n1 THEN "c1" ELSE IF f = n2 THEN "c2" ELSE "txt"]]
    /\ \E c1 \in Containers(10), c2 \in Containers(20) :
          chunk_data = [c \in {"c1", "c2", "txt"} |->
                           IF c = "c1" THEN c1 ELSE IF c = "c2" THEN c2 ELSE Unreadable]
    /\ dec_walk \in {w \in Perms(RawFiles) : w[Len(w)][2] = Notes}
    /\ dec_pc = "walking"
    /\ csv_dir = NoMap
    /\ dec_log = <<>>

\* process_avro_to_csv, one iteration for a file that is no .avro (line 37)
DecSkipFile ==
    /\ dec_pc = "walking"
    /\ dec_walk # <<>>
    /\ Head(dec_walk)[2].ext # ".avro"
    /\ dec_walk' = Tail(dec_walk)
    /\ UNCHANGED <<chunk_data, dec_pc, csv_dir, dec_log>>
    /\ UNCHANGED <<segVars, stageVars, restVars>>

\* process_avro_to_csv, one iteration for a chunk (lines 37-38)
DecConvertFile ==
    /\ dec_pc = "walking"
    /\ dec_walk # <<>>
    /\ Head(dec_walk)[2].ext = ".avro"
    /\ LET k == Head(dec_walk)[1]
           f == Head(dec_walk)[2]
           r == convert_and_append_file(csv_dir, f, chunk_data[raw[k][f]])
       IN  /\ csv_dir' = r.csv
           /\ dec_log' = Append(dec_log, [file |-> f, chunk |-> raw[k][f],
                                          failed |-> r.failed, wrote |-> r.wrote])
    /\ dec_walk' = Tail(dec_walk)
    /\ UNCHANGED <<chunk_data, dec_pc>>
    /\ UNCHANGED <<segVars, stageVars, restVars>>

\* process_avro_to_csv returns when the walk is exhausted
DecReturn ==
    /\ dec_pc = "walking"
    /\ dec_walk = <<>>
    /\ dec_pc' = "returned"
    /\ UNCHANGED <<chunk_data, dec_walk, csv_dir, dec_log>>
    /\ UNCHANGED <<segVars, stageVars, restVars>>

NextDec == DecSkipFile \/ DecConvertFile \/ DecReturn

SpecDec == InitDec /\ [][NextDec]_vars

----------------------------------------------------------------------------
(* Decoder, decode step: properties *)

\* the signal has no reason to raise at lines 53-57
SignalDecodes(sig) == sig.present /\ (sig.freq # 0 \/ sig.values = <<>>)

\* line k of the rows a signal contributes: its k-th value, stamped with the
\* integer nearest to start + (k - 1) * 1e6 / freq
IsRowOf(line, sig, k) ==
    /\ line.kind = "row"
    /\ line.val = sig.values[k]
    /\ LET exact == sig.start * sig.freq + (k - 1) * 1000000
           d == line.ts * sig.freq - exact
       IN  2 * d <= sig.freq /\ -2 * d <= sig.freq

\* the step decodes the chunk at the head of the walk
IsDecodeStep ==
    /\ dec_pc = "walking"
    /\ dec_walk # <<>>
    /\ dec_walk' = Tail(dec_walk)
    /\ Head(dec_walk)[2].ext = ".avro"

\* C8: decoding a chunk onto an existing per-subject per-signal table leaves
\* the lines the table held unchanged and in place and puts all rows of the
\* chunk's signal right after them, in value order, stamped from the chunk's
\* own start offset (no sorting, re-basing or de-duplication); no other table
\* changes.
C8_AppendOrder ==
    [][IsDecodeStep =>
          LET data == chunk_data[raw[Head(dec_walk)[1]][Head(dec_walk)[2]]]
              pid == participant_id(Head(dec_walk)[2])
          IN  /\ \A t \in DOMAIN csv_dir :
                    /\ t \in DOMAIN csv_dir'
                    /\ Len(csv_dir'[t]) >= Len(csv_dir[t])
                    /\ SubSeq(csv_dir'[t], 1, Len(csv_dir[t])) = csv_dir[t]
                    /\ t[2] # pid => csv_dir'[t] = csv_dir[t]
              /\ \A i \in DOMAIN SignalNames :
                    LET t == <<SignalNames[i], pid>>
                        sig == data[SignalNames[i]]
                    IN  (/\ t \in DOMAIN csv_dir
                         /\ data.readable
                         /\ \A j \in 1..i : SignalDecodes(data[SignalNames[j]]))
                        => /\ Len(csv_dir'[t]) = Len(csv_dir[t]) + Len(sig.values)
                           /\ \A k \in DOMAIN sig.values :
                                 IsRowOf(csv_dir'[t][Len(csv_dir[t]) + k], sig, k)
      ]_vars

\* two chunks went into one eda table, the later one starting earlier in time
C8_Witness ==
    /\ Len(dec_log) = 2
    /\ \E t \in DOMAIN csv_dir :
          /\ t \in dec_log[1].wrote \cap dec_log[2].wrote
          /\ t[1] = "eda"
          /\ Len(csv_dir[t]) = 1 + 2 * MaxVals
          /\ csv_dir[t][2].ts > csv_dir[t][2 + MaxVals].ts
          /\ csv_dir[t][2].val < csv_dir[t][2 + MaxVals].val

\* C9: every per-subject per-signal table has exactly one header line, and it
\* is the first line.
C9_OneHeaderFirst ==
    \A t \in DOMAIN csv_dir :
        /\ Len(csv_dir[t]) >= 1
        /\ csv_dir[t][1] = HeaderLine(t[1])
        /\ \A k \in 2..Len(csv_dir[t]) : csv_dir[t][k].kind = "row"

C9_Witness ==
    /\ Len(dec_log) = 2
    /\ \E t \in dec_log[1].wrote \cap dec_log[2].wrote :
          /\ Len(csv_dir[t]) >= 3
          /\ csv_dir[t][1].kind = "header"

\* values of the rows a chunk carries (the model gives every chunk its own)
ChunkValues(c) == Range(chunk_data[c].eda.values) \cup Range(chunk_data[c].bvp.values)
IsFullyDecoded(e) ==
    \A i \in DOMAIN SignalNames :
        LET t == <<SignalNames[i], participant_id(e.file)>>
        IN  /\ t \in DOMAIN csv_dir
            /\ \A v \in Range(chunk_data[e.chunk][SignalNames[i]].values) :
                  \E k \in DOMAIN csv_dir[t] : csv_dir[t][k].val = v

\* C10: a chunk whose decoding failed at any point contributes no row and no
\* header to any table, and every other chunk is decoded completely.
C10_FailedChunkExcluded ==
    \A n \in DOMAIN dec_log :
        LET e == dec_log[n]
        IN  /\ e.failed =>
                  /\ e.wrote = {}
                  /\ \A t \in DOMAIN csv_dir : \A k \in DOMAIN csv_dir[t] :
                        csv_dir[t][k].kind = "row" => csv_dir[t][k].val \notin ChunkValues(e.chunk)
            /\ ~e.failed => IsFullyDecoded(e)

\* what the code does guarantee: a failure is caught, the walk goes on, the
\* chunks that do not fail are decoded completely
DecFailureIsCaught ==
    /\ \A n \in DOMAIN dec_log : ~dec_log[n].failed => IsFullyDecoded(dec_log[n])
    /\ dec_pc = "returned" => Len(dec_log) = Cardinality({x \in RawFiles : x[2].ext = ".avro"})

----------------------------------------------------------------------------
(* Feature Extractor: utils/feature_extraction.py *)

MaxRuns == 2         \* calls of run_feature_extraction / transform_data the model follows

SAMPLING_RATE == 500
WINDOW_SECONDS == 60
CHANNELS_OF_INTEREST == {"EEG.F3", "EEG.F4"}
BaselineSeconds == 60       \* line 72
OtherSeconds == 240         \* line 74

\* What a phase file holds: kind "corrupt" (pd.read_csv raises), "text" (a
\* table whose channel cells are no numbers: the filter raises) or "table";
\* its columns and its number of data rows.
PhaseFile(kind, cols, nrows) == [kind |-> kind, cols |-> cols, nrows |-> nrows]

\* str.lower() of the name parts of the model that hold capitals
lower(t) ==
    LET Capitals ==
            ("Control" :> "control") @@ ("Raga" :> "raga") @@ ("Breathing" :> "breathing")
            @@ ("EEG" :> "eeg") @@ ("Baseline" :> "baseline")
            @@ ("TARIS05" :> "taris05") @@ ("TARIS12" :> "taris12")
    IN  IF t \in DOMAIN Capitals THEN Capitals[t] ELSE t

\* line 191: file_name.replace(".csv", "").lower(), for a file <name>.csv
\* whose name is the token sequence `name` (tokens separated where "_" stands)
phase_name_of(name) == [i \in DOMAIN name |-> lower(name[i])]

\* line 200: phase_name.split('_')[-1]
RECURSIVE last_part(_)
last_part(phase_name) ==
    IF \E i \in DOMAIN phase_name : phase_name[i] = "_"
    THEN last_part(Tail(phase_name))
    ELSE phase_name

None == [some |-> FALSE, duration_seconds |-> 0, total_samples |-> 0, num_windows |-> 0]

\* extract_features_from_file, lines 60-131. The feature values are the means
\* over num_windows windows of window_samples rows each; the dict is kept as the
\* duration chosen, the rows analysed and the number of windows.
extract_features_nan_row(content, phase_name) ==
    IF content.kind = "corrupt"
    THEN None
    ELSE IF ~(CHANNELS_OF_INTEREST \subseteq content.cols)
    THEN None
    ELSE LET duration_seconds == IF phase_name = <<"baseline">>
                                 THEN BaselineSeconds ELSE OtherSeconds
             expected == duration_seconds * SAMPLING_RATE
             total_samples == IF content.nrows < expected THEN content.nrows ELSE expected
             window_samples == WINDOW_SECONDS * SAMPLING_RATE
             num_windows == total_samples \div window_samples
         IN  IF content.kind = "text" THEN None
             ELSE [some |-> TRUE, duration_seconds |-> duration_seconds,
                   total_samples |-> total_samples, num_windows |-> num_windows]

extract_features_from_file(content, phase_name) ==
    IF content.kind = "corrupt"
    THEN None                                        \* line 66 raises, lines 129-131
    ELSE IF ~(CHANNELS_OF_INTEREST \subseteq content.cols)
    THEN None                                        \* lines 67-69
    ELSE LET duration_seconds == IF phase_name = <<"baseline">>
                                 THEN BaselineSeconds ELSE OtherSeconds
             expected == duration_seconds * SAMPLING_RATE
             total_samples == IF content.nrows < expected THEN content.nrows ELSE expected
             window_samples == WINDOW_SECONDS * SAMPLING_RATE
             num_windows == total_samples \div window_samples
         IN  IF num_windows = 0
             THEN None                               \* lines 88-90
             ELSE IF content.kind = "text"
             THEN None                               \* line 101 raises, lines 129-131
             ELSE [some |-> TRUE, duration_seconds |-> duration_seconds,
                   total_samples |-> total_samples, num_windows |-> num_windows]

GROUPS == <<"Control", "Raga", "Breathing">>       \* line 160
IndexIn(s, x) == CHOOSE i \in DOMAIN s : s[i] = x

\* lines 172-195: the phase files extract_features_from_file is called on; line
\* 192 skips a file when "setup" in phase_name
visited(tree) ==
    {k \in DOMAIN tree.files :
        /\ k[1] \in Range(GROUPS)
        /\ ~(\E i \in DOMAIN k[3] : phase_name_of(k[3])[i] = "setup")}

\* lines 195-204 for the file k: the row it adds, if any (source is the file
\* the row was computed from; it is no column of the table)
result_row(tree, k) ==
    LET phase_name == phase_name_of(k[3])
        features == extract_features_from_file(tree.files[k], phase_name)
    IN  [SubjectID |-> k[2], Phase |-> JoinTokens(last_part(phase_name)),
         Group |-> lower(k[1]), features |-> features, source |-> k]

\* the orders in which the loops of lines 172-204 can reach the files that add
\* a row: by group, by sorted subject folder, then as glob lists the files
RowOrders(tree) ==
    LET yielding == {k \in visited(tree) : result_row(tree, k).features.some}
        SubjectOrder == <<"TARIS05", "TARIS12">>       \* sorted() of the subject folders
    IN  {w \in Perms(yielding) :
            \A i, j \in DOMAIN w : i < j =>
                \/ IndexIn(GROUPS, w[i][1]) < IndexIn(GROUPS, w[j][1])
                \/ /\ w[i][1] = w[j][1]
                   /\ IndexIn(SubjectOrder, w[i][2]) <= IndexIn(SubjectOrder, w[j][2])}

\* run_feature_extraction, lines 148-218, for the row order w and the way
\* to_csv ends: "ok", "denied" (the file cannot be opened) or "partial" (it is
\* opened, truncated, and the write fails)
run_feature_extraction_always_writes(tree, fs, output_path, w, to_csv) ==
    LET rows == IF tree.exists THEN [i \in DOMAIN w |-> result_row(tree, w[i])] ELSE <<>>
    IN  [fs |-> Put(fs, output_path, rows), result |-> output_path, rows |-> rows,
         read |-> IF tree.exists THEN visited(tree) ELSE {}]

run_feature_extraction(tree, fs, output_path, w, to_csv) ==
    IF ~tree.exists
    THEN [fs |-> fs, result |-> "None", rows |-> <<>>, read |-> {}]     \* lines 163-168
    ELSE LET all == [i \in DOMAIN w |-> result_row(tree, w[i])]
         IN  IF all = <<>>
             THEN [fs |-> fs, result |-> "None", rows |-> all, read |-> visited(tree)]
             ELSE IF to_csv = "ok"
             THEN [fs |-> Put(fs, output_path, all), result |-> output_path,
                   rows |-> all, read |-> visited(tree)]
             ELSE IF to_csv = "denied"
             THEN [fs |-> fs, result |-> "None", rows |-> all, read |-> visited(tree)]
             ELSE [fs |-> Put(fs, output_path, <<>>), result |-> "None",
                   rows |-> all, read |-> visited(tree)]

\* get_paths, lines 138-145: the default output file
DefaultOutput == "features_extracted/eeg_features_output.csv"

\* The phase files of the model
Written(base, label) == <<base, "_", label>>       \* f"{base_name}_{ext}.csv"
WindowRows == WINDOW_SECONDS * SAMPLING_RATE
EegColumns == {"Timestamp", "EEG.F3", "EEG.F4"}
FeatContents ==
    {PhaseFile("table", EegColumns, n) :
        n \in {0, WindowRows - 1, WindowRows, 2 * WindowRows, 4 * WindowRows - 1,
               5 * WindowRows}}
    \cup {PhaseFile("corrupt", {}, 0), PhaseFile("text", EegColumns, WindowRows),
          PhaseFile("table", {"unix_timestamp", "eda"}, WindowRows)}
OldRows == <<[SubjectID |-> "old", Phase |-> "old", Group |-> "old",
              features |-> None, source |-> <<>>]>>

FeatKey == << <<"Control", "TARIS05", Written("EEG", "baseline")>>,
             <<"Control", "TARIS05", Written("EEG", "test")>>,
             <<"Raga", "TARIS12", <<"Baseline">>>>,
             <<"Control", "TARIS12", <<"setup", "_", "baseline">>>>,
             <<"Yoga", "TARIS05", Written("EEG", "test")>> >>

FeatTrees ==
    {[exists |-> TRUE, files |-> Restrict(f, {k \in DOMAIN f : f[k].kind # "absent"})] :
        f \in {g \in [{FeatKey[1], FeatKey[2], FeatKey[3], FeatKey[4], FeatKey[5]} -> FeatContents \cup {PhaseFile("absent", {}, 0)}] :
                 /\ g[FeatKey[3]] \in {PhaseFile("absent", {}, 0), PhaseFile("table", EegColumns, WindowRows),
                               PhaseFile("table", EegColumns, 2 * WindowRows)}
                 /\ g[FeatKey[4]] \in {PhaseFile("absent", {}, 0), PhaseFile("table", EegColumns, WindowRows)}
                 /\ g[FeatKey[5]] \in {PhaseFile("absent", {}, 0), PhaseFile("table", EegColumns, WindowRows)}}}
    \cup {[exists |-> FALSE, files |-> NoMap]}

InitFeat ==
    /\ SegIdle
    /\ StageIdle
    /\ DecIdle
    /\ RenIdle
    /\ PeriIdle
    /\ PipeIdle
    /\ phase_segmented \in FeatTrees
    /\ features_csv \in {NoMap, [p \in {DefaultOutput} |-> OldRows]}
    /\ all_features_data = <<>>
    /\ feat_result = "none"
    /\ feat_read = {}
    /\ feat_calls = 0

\* main(), lines 221-223: run_feature_extraction() on the default paths
RunFeatureExtraction ==
    /\ feat_calls < MaxRuns
    /\ \E w \in RowOrders(phase_segmented), to_csv \in {"ok", "denied", "partial"} :
          LET r == run_feature_extraction(phase_segmented, features_csv, DefaultOutput,
                                          w, to_csv)
          IN  /\ features_csv' = r.fs
              /\ feat_result' = r.result
              /\ all_features_data' = r.rows
              /\ feat_read' = r.read
    /\ feat_calls' = feat_calls + 1
    /\ UNCHANGED phase_segmented
    /\ UNCHANGED <<segVars, stageVars, decVars, renVars, periVars, pipeVars>>

SpecFeat == InitFeat /\ [][RunFeatureExtraction]_vars

----------------------------------------------------------------------------
(* The pipeline: src/transform.py transform_data, with the mapping of       *)
(* utils/initialize.py and the group step of utils/Avro_to_CSV.py           *)

\* Participant tables, each row with its Group cell: two subjects of two
\* groups; one subject on two dates; no row in the date range; one subject
\* listed under two groups; one subject alone.
MetaRow(pid, emp, date, group) == [pid |-> pid, emp |-> emp, date |-> date, group |-> group]
PipeTables ==
    {<<MetaRow(5, <<"TARIS0", "7">>, Jan17, "Control"), MetaRow(12, <<"TARIS0">>, Jan17, "Raga")>>,
     <<MetaRow(5, <<"TARIS0", "7">>, Jan18, "Control"), MetaRow(5, <<"TARIS0", "7">>, Jan17, "Control")>>,
     <<MetaRow(5, <<"TARIS0", "7">>, Feb19, "Yoga")>>,
     <<MetaRow(5, <<"TARIS0", "7">>, Jan17, "Control"), MetaRow(5, <<"TARIS0", "7">>, Feb19, "Yoga")>>,
     <<MetaRow(12, <<"TARIS0">>, Jan17, "Raga")>>}

\* A session folder that holds one chunk in raw_data/v6 and one chunk, named
\* after another subject, directly under the session folder.
SessionStray ==
    LET Stray == [loc |-> "top", stem |-> <<"TARIS", "12">>, ext |-> ".avro"]
    IN  [name |-> <<"TARIS0", "7", "_S">>, isdir |-> TRUE, fail |-> "none",
         files |-> [f \in {ChunkA, Stray} |-> IF f = ChunkA THEN "s1" ELSE "s2"],
         badfile |-> ChunkA]

PipeListings ==
    {<<SessionABC("none")>>, <<SessionABC("none"), SessionX("none")>>,
     <<SessionX("file"), SessionABC("none")>>, <<SessionStray>>}

\* The container each chunk of the sessions holds (a2 may be unreadable)
ChunkIds == <<"a1", "a2", "b1", "s1", "s2">>
PipeContainer(c) ==
    LET i == CHOOSE i \in DOMAIN ChunkIds : ChunkIds[i] = c
    IN  [readable |-> TRUE,
         eda |-> Signal(0, 4, 10 * i, 1),
         bvp |-> Signal(0, 128, 10 * i + 5, 1)]

\* get_group_mapping, lines 17-29: the loop over the rows from row i on; a dict
\* keeps its keys in insertion order
RECURSIVE get_group_mapping(_, _, _)
get_group_mapping(rows, i, mapping) ==
    IF i > Len(rows) THEN mapping
    ELSE LET group == rows[i].group
             part_id == JoinTokens(DestName(rows[i]))
             known == {k \in DOMAIN mapping : mapping[k].group = group}
         IN  IF known = {}
             THEN get_group_mapping(rows, i + 1,
                      Append(mapping, [group |-> group, subjects |-> <<part_id>>]))
             ELSE LET k == CHOOSE k \in known : TRUE
                  IN  IF part_id \in Range(mapping[k].subjects)
                      THEN get_group_mapping(rows, i + 1, mapping)
                      ELSE get_group_mapping(rows, i + 1,
                               [mapping EXCEPT ![k].subjects = Append(@, part_id)])

\* organized_data: groups = the group folders that exist; files maps
\* <<group, subject, file>> (group "" for a subject folder directly under the
\* root, file = <<signal, participant_id>>) to the lines of the table.
Root == ""

\* line 74: re.search(r'TARIS\d+', file_name) on <signal>_<participant_id>.csv
taris_match(file) == file[2] \in {"TARIS" \o d : d \in DigitTokens}

\* lines 73-79: every matching file of output_csv_dir moves to
\* organized/<taris_id>/<file_name>, replacing a file of that name
move_files(csv, org) ==
    LET moved == {file \in DOMAIN csv : taris_match(file)}
        dest == {<<Root, file[2], file>> : file \in moved}
    IN  [csv |-> Restrict(csv, (DOMAIN csv) \ moved),
         org |-> [org EXCEPT !.files =
                     [k \in (DOMAIN org.files) \cup dest |->
                         IF k \in dest THEN csv[k[3]] ELSE org.files[k]]]]

SubjectFiles(org, group, subject) ==
    {k \in DOMAIN org.files : k[1] = group /\ k[2] = subject}

\* lines 88-90: shutil.move(subject_current_path, group_path) moves the folder
\* into the group folder and raises shutil.Error when it is already there
move_subject_any(org, group, subject) ==
    LET src == {k \in DOMAIN org.files : k[1] = Root}
    IN  [org |-> [org EXCEPT !.files =
                     [k \in ((DOMAIN org.files) \ src) \cup {<<group, s[2], s[3]>> : s \in src} |->
                         IF k[1] = group /\ <<Root, k[2], k[3]>> \in src
                         THEN org.files[<<Root, k[2], k[3]>>] ELSE org.files[k]]],
         raised |-> FALSE]

move_subject(org, group, subject) ==
    LET src == SubjectFiles(org, Root, subject)
    IN  IF src = {}
        THEN [org |-> org, raised |-> FALSE]
        ELSE IF SubjectFiles(org, group, subject) # {}
        THEN [org |-> org, raised |-> TRUE]
        ELSE [org |-> [org EXCEPT !.files =
                          [k \in ((DOMAIN org.files) \ src) \cup {<<group, subject, s[3]>> : s \in src} |->
                              IF k[1] = group /\ k[2] = subject
                              THEN org.files[<<Root, subject, k[3]>>] ELSE org.files[k]]],
              raised |-> FALSE]

\* lines 87-90: the loop over the subjects of one group from subject i on
RECURSIVE move_subjects(_, _, _, _)
move_subjects(org, group, subjects, i) ==
    IF i > Len(subjects) THEN [org |-> org, raised |-> FALSE]
    ELSE LET r == move_subject(org, group, subjects[i])
         IN  IF r.raised THEN r ELSE move_subjects(r.org, group, subjects, i + 1)

\* lines 82-90: the loop over mapping.items() from group g on
RECURSIVE move_groups(_, _, _)
move_groups(org, mapping, g) ==
    IF g > Len(mapping) THEN [org |-> org, raised |-> FALSE]
    ELSE LET made == [org EXCEPT !.groups = @ \cup {mapping[g].group}]
             r == move_subjects(made, mapping[g].group, mapping[g].subjects, 1)
         IN  IF r.raised THEN r ELSE move_groups(r.org, mapping, g + 1)

\* organize_by_subject(mapping), lines 72-90
organize_by_subject(csv, org, mapping) ==
    LET s1 == move_files(csv, org)
        s2 == move_groups(s1.org, mapping, 1)
    IN  [csv |-> s1.csv, org |-> s2.org, raised |-> s2.raised]

\* transform.py lines 71-75, in the order segment_rules.items() yields them
segment_rules ==
    <<[group |-> "Control", exts |-> <<"baseline", "test">>, ratios |-> <<1, 5>>],
      [group |-> "Breathing", exts |-> <<"baseline", "intervention", "test">>,
       ratios |-> <<1, 5, 5>>],
      [group |-> "Raga", exts |-> <<"baseline", "intervention", "test">>,
       ratios |-> <<1, 5, 5>>]>>

\* run_segmentation (lines 41-53) of CSVSegmenter(organized/<group>,
\* phase_segmented/<group>, exts, ratios) over the files `todo` it has still to
\* visit; st = [out, dirs, read, raised]
RECURSIVE run_segmentation(_, _, _, _)
run_segmentation(rule, org, todo, st) ==
    IF todo = {} \/ st.raised THEN st
    ELSE LET k == CHOOSE k \in todo : TRUE
             f == [dir |-> <<k[1], k[2]>>, stem |-> k[3], suffix |-> ".csv"]
             \* pd.read_csv: the header names the columns, the other lines are rows
             df == [kind |-> "table",
                    rows |-> SelectSeq(org.files[k], LAMBDA l : l.kind = "row")]
             r == split_csv(rule.exts, rule.ratios, f, df, st.out)
         IN  run_segmentation(rule, org, todo \ {k},
                 [out |-> r.out,
                  dirs |-> st.dirs \cup {f.dir},
                  read |-> IF r.read THEN st.read \cup {k} ELSE st.read,
                  raised |-> r.outcome = "raised"])

\* transform.py lines 77-84: the loop over segment_rules from rule i on
RECURSIVE segment_groups(_, _, _)
segment_groups(org, i, st) ==
    IF i > Len(segment_rules) \/ st.raised THEN st
    ELSE LET rule == segment_rules[i]
             group_input == {k \in DOMAIN org.files : k[1] = rule.group}
         IN  IF rule.group \in org.groups
             THEN segment_groups(org, i + 1, run_segmentation(rule, org, group_input, st))
             ELSE segment_groups(org, i + 1, st)

\* process_avro_to_csv (lines 31-38) over the walk w from position i on;
\* st = [csv, log], log = what _convert_and_append_file did for each chunk
RECURSIVE process_avro_to_csv(_, _, _, _, _)
process_avro_to_csv(tree, data, w, i, st) ==
    IF i > Len(w) THEN st
    ELSE LET k == w[i][1]
             f == w[i][2]
         IN  IF f.ext # ".avro"
             THEN process_avro_to_csv(tree, data, w, i + 1, st)
             ELSE LET r == convert_and_append_file(st.csv, f, data[tree[k][f]])
                  IN  process_avro_to_csv(tree, data, w, i + 1,
                          [csv |-> r.csv,
                           log |-> st.log \cup {[folder |-> k, file |-> f,
                                                  chunk |-> tree[k][f],
                                                  failed |-> r.failed, wrote |-> r.wrote]}])

\* os.walk of the raw tree: folder after folder (p), the files of a folder in
\* listing order
RECURSIVE FolderWalks(_, _, _)
FolderWalks(tree, p, i) ==
    IF i > Len(p) THEN {<<>>}
    ELSE {[j \in DOMAIN q |-> <<p[i], q[j]>>] \o rest :
             q \in Perms(DOMAIN tree[p[i]]), rest \in FolderWalks(tree, p, i + 1)}

TreeWalks(tree) == UNION {FolderWalks(tree, p, 1) : p \in Perms(DOMAIN tree)}

\* phase_segmented as the Segmenter left it, as the Extractor sees it: the
\* folder exists once a target folder was made; the file <stem>_<label>.csv
\* of <group>/<subject> has the columns of the decoded table it was cut from.
PhaseKey3(o) == <<o[1][1], o[1][2], <<o[2][1], "_", o[2][2], "_", o[3]>>>>
PhaseView ==
    [exists |-> created_dirs # {},
     files |-> [k \in {PhaseKey3(o) : o \in DOMAIN out_files} |->
                  LET o == CHOOSE o \in DOMAIN out_files : PhaseKey3(o) = k
                  IN  PhaseFile("table", {"unix_timestamp", o[2][1]}, Len(out_files[o]))]]

\* def run_feature_extraction(base_path=None, output_path=None), line 148
Parameters == {"base_path", "output_path"}
\* the keywords of the call at transform.py lines 91-94
CallKeywords == {"root_dir", "output_path"}
\* FEATURES_CSV, transform.py line 41
FEATURES_CSV == "features_extracted/<today>/eeg_features_output.csv"

InitPipe ==
    /\ SegIdle
    /\ RenIdle
    /\ PeriIdle
    /\ FeatIdle
    /\ PipeIdle
    /\ metadata \in PipeTables
    /\ \E l17 \in PipeListings, e17 \in BOOLEAN :
          unprocessed = [d \in DateFolders |->
              IF d = <<2026, 1, 17>> THEN [exists |-> e17, listing |-> IF e17 THEN l17 ELSE <<>>]
              ELSE IF d = <<2026, 1, 18>>
              THEN [exists |-> TRUE, listing |-> <<SessionABC("none")>>]
              ELSE [exists |-> FALSE, listing |-> <<>>]]
    /\ raw = NoMap
    /\ stage_calls = 0
    /\ returned = <<>>
    /\ stage_log = <<>>
    /\ raw_after_first = NoMap
    /\ stage_renamed = {}
    /\ rename_done = {}
    /\ dirty_at_call = {}
    /\ \E a2 \in {PipeContainer("a2"), Unreadable} :
          chunk_data = [c \in Range(ChunkIds) |-> IF c = "a2" THEN a2 ELSE PipeContainer(c)]
    /\ dec_walk = <<>>
    /\ dec_pc = "returned"
    /\ csv_dir = NoMap
    /\ dec_log = <<>>

\* transform_data, lines 48-58: the mapping, the Stager, the early return
PipeStage ==
    /\ pipe_pc \in {"idle", "returned", "raised"}
    /\ stage_calls < MaxRuns
    /\ subject_mapping' = get_group_mapping(metadata, 1, <<>>)
    /\ prepare_raw_data
    /\ pipe_pc' = IF returned' = <<>> THEN "returned" ELSE "rename"
    /\ pipe_result' = IF returned' = <<>> THEN "None" ELSE "none"
    /\ pipe_trace' = <<"Stager">>
    /\ UNCHANGED organized
    /\ UNCHANGED <<segVars, decVars, renVars, periVars, featVars>>

\* lines 62-63: rename_avro_files for one of the active dates
PipeRename ==
    /\ pipe_pc = "rename"
    /\ rename_avro_files
    /\ pipe_trace' = IF pipe_trace[Len(pipe_trace)] = "rename" THEN pipe_trace
                     ELSE Append(pipe_trace, "rename")
    /\ UNCHANGED <<pipe_pc, subject_mapping, organized, pipe_result>>
    /\ UNCHANGED <<segVars, decVars, renVars, periVars, featVars>>

\* line 65: process_avro_to_csv, once every active date is renamed
PipeDecode ==
    /\ pipe_pc = "rename"
    /\ Range(returned) \subseteq rename_done
    /\ \E w \in TreeWalks(raw) :
          LET r == process_avro_to_csv(raw, chunk_data, w, 1, [csv |-> csv_dir, log |-> {}])
          IN  /\ csv_dir' = r.csv
              /\ dec_log' = r.log
    /\ pipe_pc' = "group"
    /\ pipe_trace' = Append(pipe_trace, "decode")
    /\ UNCHANGED <<chunk_data, dec_walk, dec_pc>>
    /\ UNCHANGED <<subject_mapping, organized, pipe_result>>
    /\ UNCHANGED <<segVars, stageVars, renVars, periVars, featVars>>

\* line 67: organize_by_subject(subject_mapping)
PipeGroup ==
    /\ pipe_pc = "group"
    /\ LET r == organize_by_subject(csv_dir, organized, subject_mapping)
       IN  /\ csv_dir' = r.csv
           /\ organized' = r.org
           /\ pipe_pc' = IF r.raised THEN "raised" ELSE "segment"
           /\ pipe_result' = IF r.raised THEN "shutil.Error" ELSE pipe_result
    /\ pipe_trace' = Append(pipe_trace, "group")
    /\ UNCHANGED <<chunk_data, dec_walk, dec_pc, dec_log>>
    /\ UNCHANGED subject_mapping
    /\ UNCHANGED <<segVars, stageVars, renVars, periVars, featVars>>

\* lines 71-86: the Segmenter of every group of segment_rules that has a folder
PipeSegment ==
    /\ pipe_pc = "segment"
    /\ LET r == segment_groups(organized, 1,
                    [out |-> out_files, dirs |-> created_dirs, read |-> seg_read,
                     raised |-> FALSE])
       IN  /\ out_files' = r.out
           /\ created_dirs' = r.dirs
           /\ seg_read' = r.read
           /\ pipe_pc' = IF r.raised THEN "raised" ELSE "extract"
           /\ pipe_result' = IF r.raised THEN "ValueError" ELSE pipe_result
    /\ pipe_trace' = Append(pipe_trace, "Segmenter")
    /\ UNCHANGED <<extensions, ratios, base_dir, walk, seg_pc, seg_caught, seg_sizes,
                   seg_raised_on>>
    /\ UNCHANGED <<subject_mapping, organized>>
    /\ UNCHANGED <<stageVars, decVars, renVars, periVars, featVars>>

\* lines 89-99: the call of run_feature_extraction. A keyword that names no
\* parameter makes the call raise TypeError before the body runs.
PipeExtract ==
    /\ pipe_pc = "extract"
    /\ IF CallKeywords \subseteq Parameters
       THEN /\ \E w \in RowOrders(PhaseView), to_csv \in {"ok", "denied", "partial"} :
                  LET r == run_feature_extraction(PhaseView, features_csv, FEATURES_CSV,
                                                  w, to_csv)
                  IN  /\ features_csv' = r.fs
                      /\ feat_result' = r.result
                      /\ all_features_data' = r.rows
                      /\ feat_read' = r.read
                      /\ pipe_result' = IF r.result = "None" THEN "SEGMENTED_DIR"
                                        ELSE "summary"
            /\ feat_calls' = feat_calls + 1
            /\ pipe_pc' = "returned"
            /\ pipe_trace' = Append(pipe_trace, "FeatureExtractor")
            /\ UNCHANGED phase_segmented
       ELSE /\ pipe_pc' = "raised"
            /\ pipe_result' = "TypeError"
            /\ pipe_trace' = pipe_trace
            /\ UNCHANGED featVars
    /\ UNCHANGED <<subject_mapping, organized>>
    /\ UNCHANGED <<segVars, stageVars, decVars, renVars, periVars>>

\* feature_extraction.main(), lines 221-223, run when no transform_data is
\* under way: run_feature_extraction() on phase_segmented and the default output
PipeFeatureMain ==
    /\ pipe_pc \in {"returned", "raised"}
    /\ feat_calls < stage_calls
    /\ \E w \in RowOrders(PhaseView), to_csv \in {"ok", "denied", "partial"} :
          LET r == run_feature_extraction(PhaseView, features_csv, DefaultOutput, w, to_csv)
          IN  /\ features_csv' = r.fs
              /\ feat_result' = r.result
              /\ all_features_data' = r.rows
              /\ feat_read' = r.read
    /\ feat_calls' = feat_calls + 1
    /\ UNCHANGED phase_segmented
    /\ UNCHANGED <<segVars, stageVars, decVars, renVars, periVars, pipeVars>>

NextPipe ==
    \/ PipeStage
    \/ PipeRename
    \/ PipeDecode
    \/ PipeGroup
    \/ PipeSegment
    \/ PipeExtract
    \/ PipeFeatureMain

SpecPipe == InitPipe /\ [][NextPipe]_vars

----------------------------------------------------------------------------
(* The pipeline: properties *)

\* the subject IDs of the mapping, and the groups that list a subject
MappedIds == UNION {Range(subject_mapping[g].subjects) : g \in DOMAIN subject_mapping}
GroupsOf(S) ==
    {subject_mapping[g].group : g \in {h \in DOMAIN subject_mapping :
                                          S \in Range(subject_mapping[h].subjects)}}

\* organize_by_subject of the current transform_data has returned
OrganizeReturned ==
    \/ pipe_pc \in {"segment", "extract"}
    \/ /\ pipe_pc \in {"returned", "raised"}
       /\ "group" \in Range(pipe_trace)
       /\ pipe_result # "shutil.Error"

\* C11: once organize_by_subject has returned, the tables of a subject that no
\* group list of the mapping names lie in a folder directly under the
\* organized root, and the Segmenter and the Feature Extractor never read
\* them: there is no phase file and no feature row for that subject; the
\* tables of a subject of the mapping lie under a group folder that lists it.
C11_UngroupedInvisible ==
    OrganizeReturned =>
        /\ \A k \in DOMAIN organized.files :
              IF k[2] \in MappedIds THEN k[1] \in GroupsOf(k[2]) ELSE k[1] = Root
        /\ \A k \in DOMAIN organized.files :
              k[2] \notin MappedIds =>
                  /\ k \notin seg_read
                  /\ \A o \in DOMAIN out_files : o[1][2] # k[2]
                  /\ \A f \in feat_read : f[2] # k[2]
                  /\ \A i \in DOMAIN all_features_data :
                        all_features_data[i].SubjectID # k[2]
                  /\ \A path \in DOMAIN features_csv : \A i \in DOMAIN features_csv[path] :
                        features_csv[path][i].SubjectID # k[2]

C11_Witness ==
    /\ OrganizeReturned
    /\ \E k \in DOMAIN organized.files : k[2] \notin MappedIds /\ k[1] = Root
    /\ \E k \in DOMAIN organized.files :
          /\ k[2] \in MappedIds
          /\ k \in seg_read
          /\ \E o \in DOMAIN out_files : o[1] = <<k[1], k[2]>> /\ o[2] = k[3]
          /\ \E f \in feat_read : f[1] = k[1] /\ f[2] = k[2]

\* the step is one of the Decoder: rename, decode (both leave from "rename")
\* or group
IsDecoderStep == pipe_pc \in {"rename", "group"}

\* C12: stage ownership. No step changes unprocessed/; a step of the Decoder
\* (rename, decode, group) leaves raw/ as the Stager wrote it and writes only
\* csv_data/ and organized_data/; the Stager writes only raw/; the Segmenter
\* leaves raw/, csv_data/ and organized_data/ unchanged and writes only
\* phase_segmented/; the Feature Extractor leaves phase_segmented/ and every
\* earlier tree unchanged.
C12_StageOwnership ==
    [][/\ unprocessed' = unprocessed
       /\ IsDecoderStep =>
             /\ raw' = raw
             /\ out_files' = out_files /\ features_csv' = features_csv
       /\ stage_calls' # stage_calls =>
             /\ csv_dir' = csv_dir /\ organized' = organized
             /\ out_files' = out_files /\ features_csv' = features_csv
       /\ pipe_pc = "segment" =>
             /\ raw' = raw /\ csv_dir' = csv_dir /\ organized' = organized
             /\ features_csv' = features_csv
       /\ (pipe_pc = "extract" \/ feat_calls' # feat_calls) =>
             /\ raw' = raw /\ csv_dir' = csv_dir /\ organized' = organized
             /\ out_files' = out_files /\ created_dirs' = created_dirs
             /\ phase_segmented' = phase_segmented]_vars

\* C13: no exception leaves a loop over units: transform_data never ends with
\* the shutil.Error of a subject folder that the loop over the subjects of a
\* group could not move, also when it runs again over the trees of an earlier
\* run.
C13_NoExceptionLeavesLoop == pipe_pc = "raised" => pipe_result # "shutil.Error"

\* the steps of transform_data in the order of the pipeline
StageOrder == <<"Stager", "rename", "decode", "group", "Segmenter", "FeatureExtractor">>

\* C15: the steps of a transform_data run are taken in the order Stager,
\* rename, decode, group, Segmenter, Feature Extractor; a run whose Stager
\* returned no date has written no decoded, grouped, segmented or feature
\* output; a run whose Stager returned a date and whose Segmenter has run ends
\* by returning, after the Feature Extractor was invoked, with the segmented
\* directory (null result) or the summary, never by raising.
C15_StageOrder ==
    /\ \A i \in DOMAIN pipe_trace : i <= Len(StageOrder) /\ pipe_trace[i] = StageOrder[i]
    /\ (pipe_pc = "returned" /\ returned = <<>>) =>
          /\ DOMAIN csv_dir = {} /\ DOMAIN organized.files = {}
          /\ DOMAIN out_files = {} /\ DOMAIN features_csv = {}
    /\ (pipe_pc \in {"returned", "raised"} /\ "Segmenter" \in Range(pipe_trace)) =>
          /\ pipe_pc = "returned"
          /\ "FeatureExtractor" \in Range(pipe_trace)
          /\ pipe_result \in {"SEGMENTED_DIR", "summary"}

\* C20: once the decode step of transform_data has run, every table a chunk
\* file under raw/<date>/<S>/ added rows to is a table of S, <signal>_<S>, and
\* every such chunk that decoded without failure added its rows to a table.
C20_SubjectAttribution ==
    "decode" \in Range(pipe_trace) =>
        \A e \in dec_log :
            /\ \A t \in e.wrote : t[2] = JoinTokens(e.folder[2])
            /\ ~e.failed => e.wrote # {}

----------------------------------------------------------------------------
(* Feature Extractor: properties *)

\* C14: a call of run_feature_extraction that accumulated no feature row
\* returns None and leaves every feature-table file as it was (none created,
\* none modified); a call that returns the output path has written to that
\* path a table of the rows it accumulated, at least one.
C14_NullResultWritesNothing ==
    [][feat_calls' # feat_calls =>
          /\ all_features_data' = <<>> =>
                /\ feat_result' = "None"
                /\ features_csv' = features_csv
          /\ feat_result' # "None" =>
                /\ feat_result' \in DOMAIN features_csv'
                /\ features_csv'[feat_result'] = all_features_data'
                /\ Len(all_features_data') >= 1]_vars

C14_Witness ==
    /\ feat_calls >= 1
    /\ feat_result = "None"
    /\ all_features_data = <<>>
    /\ feat_read # {}
    /\ features_csv = [p \in {DefaultOutput} |-> OldRows]

\* the rows of the last call that were computed from the phase file k
RowsOf(k) == {i \in DOMAIN all_features_data : all_features_data[i].source = k}

\* the rows the extractor expects of the phase file k: 60 s or 240 s at 500 Hz
ExpectedRows(k) ==
    (IF phase_name_of(k[3]) = <<"baseline">> THEN BaselineSeconds ELSE OtherSeconds)
        * SAMPLING_RATE

\* the complete 60 s windows among the first min(rows, expected rows) rows of k
Windows(k) ==
    LET rows == phase_segmented.files[k].nrows
        used == IF rows < ExpectedRows(k) THEN rows ELSE ExpectedRows(k)
    IN  used \div (WINDOW_SECONDS * SAMPLING_RATE)

\* a phase file the extractor visits that is a numeric table with both channels
IsEegTable(k) ==
    /\ k \in visited(phase_segmented)
    /\ phase_segmented.files[k].kind = "table"
    /\ CHANNELS_OF_INTEREST \subseteq phase_segmented.files[k].cols

\* C16: after a call, every visited phase file with both channels has exactly
\* one feature row, averaged over floor(min(rows, expected rows) / 30000)
\* windows, if that number is at least 1 (also when it has fewer rows than
\* expected), and no row at all if that number is 0.
C16_WindowCount ==
    feat_calls >= 1 =>
        \A k \in DOMAIN phase_segmented.files :
            IsEegTable(k) =>
                /\ Cardinality(RowsOf(k)) = IF Windows(k) >= 1 THEN 1 ELSE 0
                /\ \A i \in RowsOf(k) :
                      all_features_data[i].features.num_windows = Windows(k)

C16_Witness ==
    /\ feat_calls >= 1
    /\ \E k \in DOMAIN phase_segmented.files :
          /\ IsEegTable(k)
          /\ phase_segmented.files[k].nrows < ExpectedRows(k)
          /\ Windows(k) = 3
          /\ RowsOf(k) # {}
    /\ \E k \in DOMAIN phase_segmented.files :
          /\ IsEegTable(k)
          /\ phase_segmented.files[k].nrows > 0
          /\ Windows(k) = 0
          /\ RowsOf(k) = {}

\* C17: every feature row whose Phase column is 'baseline' was computed from at
\* most 60 seconds of rows (at most one window), every other row from at most
\* 240 seconds (at most four windows): the duration is chosen by the phase
\* label that the Phase column shows.
C17_DurationByPhase ==
    \A i \in DOMAIN all_features_data :
        LET row == all_features_data[i]
        IN  IF row.Phase = "baseline"
            THEN /\ row.features.duration_seconds = BaselineSeconds
                 /\ row.features.total_samples <= BaselineSeconds * SAMPLING_RATE
                 /\ row.features.num_windows <= 1
            ELSE /\ row.features.duration_seconds = OtherSeconds
                 /\ row.features.total_samples <= OtherSeconds * SAMPLING_RATE
                 /\ row.features.num_windows <= 4

----------------------------------------------------------------------------
(* Feature Extractor, peripheral-signal family (electrodermal activity and  *)
(* photoplethysmography), with its driving loop, as the specification       *)
(* describes them (sections 4.4 and 8): utils/feature_extraction.py is the  *)
(* brain-wave family only.                                                   *)

EdaInsufficient == 15      \* an electrodermal signal of at most 15 samples is insufficient
EdaLength == 6             \* tonic mean, tonic std, phasic mean, count, amplitude, variance
PpgSufficient == 100       \* a pulse-wave signal of fewer than 100 samples is insufficient
PpgLength == 7             \* mean interval, SDNN, RMSSD, heart rate, pNN50, SD1, SD2
MinIntervals == 2          \* inter-beat intervals needed after peak detection

\* a feature vector of n elements: all NaN, or the values of a computation
FeatureVector(n, v) == [i \in 1..n |-> v]

\* the electrodermal extractor on a segment of `samples` rows; outcome is how
\* the decomposition ends when it is attempted: "values" or "raises"
eda_features_skip(samples, outcome) ==
    IF samples <= EdaInsufficient \/ outcome = "raises"
    THEN [row |-> FALSE, attempted |-> samples > EdaInsufficient, vector |-> <<>>]
    ELSE [row |-> TRUE, attempted |-> TRUE, vector |-> FeatureVector(EdaLength, "value")]

eda_features(samples, outcome) ==
    IF samples <= EdaInsufficient
    THEN [row |-> TRUE, attempted |-> FALSE, vector |-> FeatureVector(EdaLength, "NaN")]
    ELSE IF outcome = "raises"
    THEN [row |-> FALSE, attempted |-> TRUE, vector |-> <<>>]
    ELSE [row |-> TRUE, attempted |-> TRUE, vector |-> FeatureVector(EdaLength, "value")]

\* the pulse-wave extractor; intervals is the number of inter-beat intervals
\* that peak detection finds when it runs
ppg_features(samples, outcome, intervals) ==
    IF samples < PpgSufficient
    THEN [row |-> TRUE, attempted |-> FALSE, vector |-> FeatureVector(PpgLength, "NaN")]
    ELSE IF outcome = "raises"
    THEN [row |-> FALSE, attempted |-> TRUE, vector |-> <<>>]
    ELSE IF intervals < MinIntervals
    THEN [row |-> TRUE, attempted |-> TRUE, vector |-> FeatureVector(PpgLength, "NaN")]
    ELSE [row |-> TRUE, attempted |-> TRUE, vector |-> FeatureVector(PpgLength, "value")]

\* dispatch by filename convention: the Decoder names its tables eda_<S> and
\* bvp_<S>, the Segmenter appends _<phaseLabel>
family_of(name) ==
    IF Head(name) = "eda" THEN "electrodermal"
    ELSE IF Head(name) = "bvp" THEN "photoplethysmographic"
    ELSE "none"

\* the phase files of the model and their sample counts
PeriTrees ==
    LET PeriName(signal, subject, label) == <<signal, "_", subject, "_", label>>
        PeriKeys ==
            <<<<"Raga", "TARIS12", PeriName("eda", "TARIS12", "baseline")>>,
              <<"Raga", "TARIS12", PeriName("bvp", "TARIS12", "baseline")>>,
              <<"Control", "TARIS05", PeriName("eda", "TARIS05", "test")>>,
              <<"Control", "TARIS05", PeriName("notes", "TARIS05", "test")>>>>
        PeriSamples ==
            <<{0, EdaInsufficient, EdaInsufficient + 1},
              {PpgSufficient - 1, PpgSufficient},
              {EdaInsufficient, EdaInsufficient + 1},
              {EdaInsufficient}>>
    IN  {Restrict(f, {k \in DOMAIN f : f[k] >= 0}) :
            f \in {g \in [Range(PeriKeys) -> UNION Range(PeriSamples) \cup {-1}] :
                     \A i \in DOMAIN PeriKeys : g[PeriKeys[i]] \in PeriSamples[i] \cup {-1}}}

InitPeri ==
    /\ SegIdle
    /\ StageIdle
    /\ DecIdle
    /\ RenIdle
    /\ FeatIdle
    /\ PipeIdle
    /\ peri_tree \in PeriTrees
    /\ peri_todo = DOMAIN peri_tree
    /\ peri_log = NoMap
    /\ peri_rows = <<>>
    /\ peri_out = <<>>
    /\ peri_pc = "looping"

\* one pass of the driving loop: the next phase file is dispatched by its name
\* to the extractor of its family, and the row, if any, is accumulated
PeriVisitFile ==
    /\ peri_pc = "looping"
    /\ \E k \in peri_todo, outcome \in {"values", "raises"}, intervals \in {MinIntervals - 1, MinIntervals} :
          LET family == family_of(k[3])
              r == IF family = "electrodermal" THEN eda_features(peri_tree[k], outcome)
                   ELSE IF family = "photoplethysmographic"
                   THEN ppg_features(peri_tree[k], outcome, intervals)
                   ELSE [row |-> FALSE, attempted |-> FALSE, vector |-> <<>>]
          IN  /\ peri_todo' = peri_todo \ {k}
              /\ peri_log' = Put(peri_log, k, [family |-> family, attempted |-> r.attempted,
                                               row |-> r.row])
              /\ peri_rows' = IF r.row
                              THEN Append(peri_rows,
                                          [SubjectID |-> k[2], Group |-> lower(k[1]),
                                           Phase |-> JoinTokens(last_part(k[3])),
                                           family |-> family, vector |-> r.vector,
                                           source |-> k])
                              ELSE peri_rows
    /\ UNCHANGED <<peri_tree, peri_out, peri_pc>>
    /\ UNCHANGED <<segVars, stageVars, decVars, renVars, featVars, pipeVars>>

\* the end of the loop: the table is written once, unless it is empty
PeriWriteTable ==
    /\ peri_pc = "looping"
    /\ peri_todo = {}
    /\ peri_out' = peri_rows
    /\ peri_pc' = "returned"
    /\ UNCHANGED <<peri_tree, peri_todo, peri_log, peri_rows>>
    /\ UNCHANGED <<segVars, stageVars, decVars, renVars, featVars, pipeVars>>

NextPeri == PeriVisitFile \/ PeriWriteTable

SpecPeri == InitPeri /\ [][NextPeri]_vars

\* the rows accumulated from the phase file k
PeriRowsOf(k) == {i \in DOMAIN peri_rows : peri_rows[i].source = k}

----------------------------------------------------------------------------
(* Decoder, rename step on one chunk directory                              *)
(* raw/2026-01-17/TARIS05/raw_data/v6                                       *)

MaxChunks == 3

\* the subject folder whose chunk directory is renamed
RenFolder == <<Jan17, <<"TARIS", "05">>>>

\* The chunk directory before the rename: up to MaxChunks chunk files, named as
\* the device names them or as an earlier rename left them. The content of a
\* chunk is identified by the name it had at the start.
RenDirs ==
    LET names == {<<"chunkA">>, <<"chunkB">>, <<"TARIS", "05">>}
                 \cup {<<"TARIS", "05", "_", ToString(i)>> : i \in 1..MaxChunks}
        avro(stem) == [loc |-> "v6", stem |-> stem, ext |-> ".avro"]
    IN  {[f \in {avro(stem) : stem \in S} |-> f.stem] :
            S \in {T \in SUBSET names : T # {} /\ Cardinality(T) <= MaxChunks}}

InitRen ==
    /\ SegIdle
    /\ StagerIdle
    /\ DecIdle
    /\ FeatIdle
    /\ PipeIdle
    /\ PeriIdle
    /\ \E files \in RenDirs :
          /\ raw = [k \in {RenFolder} |-> files]
          /\ ren_initial = files
    /\ ren_calls = 0

\* rename_avro_files, lines 20-29, for the subject folder: os.listdir yields
\* the chunk files in some order
RenameChunkDir ==
    /\ ren_calls < MaxRuns
    /\ \E order \in Perms(AvroFiles(raw[RenFolder])) :
          raw' = [raw EXCEPT ![RenFolder] = rename_files(raw[RenFolder], order, 1, RenFolder[2])]
    /\ ren_calls' = ren_calls + 1
    /\ UNCHANGED ren_initial
    /\ UNCHANGED <<metadata, unprocessed, stage_calls, returned, stage_log, raw_after_first,
                   stage_renamed, rename_done, dirty_at_call>>
    /\ UNCHANGED <<segVars, decVars, featVars, pipeVars, periVars>>

SpecRen == InitRen /\ [][RenameChunkDir]_vars

\* C19: after rename_avro_files the chunk directory holds as many chunk files
\* as before, named <subjectID>_1..<subjectID>_n when there are n > 1 of them
\* and <subjectID> when there is one, and the content of every original chunk
\* is there under exactly one name.
C19_RenameLosesNoChunk ==
    ren_calls >= 1 =>
        LET n == Cardinality(DOMAIN ren_initial)
            now == raw[RenFolder]
        IN  /\ Cardinality(DOMAIN now) = n
            /\ {f.stem : f \in DOMAIN now} =
                  IF n > 1 THEN {RenFolder[2] \o <<"_", ToString(i)>> : i \in 1..n}
                  ELSE {RenFolder[2]}
            /\ \A c \in Range(ren_initial) :
                  Cardinality({f \in DOMAIN now : now[f] = c}) = 1

====
